---- MODULE Spec2Model ----
(***************************************************************************)
(* Model of make_draft_board.py: the draft board builder.  One run of      *)
(* main() is a state machine over the merged mapping adp_data, the two     *)
(* JSON snapshot files and the program counter of main.  Strings that the  *)
(* program transforms (player names, positions, numeric CSV fields) are    *)
(* sequences of one-character strings, so that replace(), lower() and      *)
(* int() are computed as the code computes them.                           *)
(***************************************************************************)
EXTENDS Integers, Sequences, FiniteSets, TLC

VARIABLES
    pc,           \* position of main(): which call it is about to make
    args,         \* parsed command line and environment (lines 323-335)
    export_file,  \* ./files/draft_board_data_<run_info>.json, or NoFile
    sd_file,      \* ./files/sports_data_io.json, or NoFile
    adp_data,     \* the merged mapping (insertion-ordered dict)
    rank_pos,     \* add_player_rankings: index of the file, rows read in it
    db_data,      \* the draft board returned by organize_db_data
    log,          \* the lines logged by the most recent step
    raised,       \* the exception that left main, or None
    invoked,      \* the ingestors called so far in this run, in call order
    net,          \* number of requests.get calls made to each source
    done,         \* files written by this run: the snapshot, the board
    nm            \* name normalizer exercise: the name and the keys computed

vars == <<pc, args, export_file, sd_file, adp_data, rank_pos, db_data, log,
          raised, invoked, net, done, nm>>

-----------------------------------------------------------------------------
(* Bounds of the model *)

MaxPlayers == 2     \* players in one primary response
MaxRows == 1        \* rows read from one ranking file
MaxEntries == 1     \* entries in one secondary response
MaxBoard == 2       \* players in a snapshot given to the organizer
MaxNameLen == 3     \* length of a generated display name

None == "None"
NoFile == <<"absent">>

-----------------------------------------------------------------------------
(* Static tables, lines 19-61 *)

PLAYER_NAME_MAP ==
    (<<"T","r","a","v","i","s"," ","E","t","i","e","n","n","e"," ","J","r",".">>
        :> <<"t","r","a","v","i","s","_","e","t","i","e","n","n","e">>)
    @@ (<<"T","r","a","v","i","s"," ","E","t","i","e","n","n","e">>
        :> <<"t","r","a","v","i","s","_","e","t","i","e","n","n","e">>)
    @@ (<<"M","e","l","v","i","n"," ","G","o","r","d","o","n"," ","I","I","I">>
        :> <<"m","e","l","v","i","n","_","g","o","r","d","o","n">>)
    @@ (<<"M","e","l","v","i","n"," ","G","o","r","d","o","n">>
        :> <<"m","e","l","v","i","n","_","g","o","r","d","o","n">>)
    @@ (<<"R","o","n","a","l","d"," ","J","o","n","e","s"," ","I","I">>
        :> <<"r","o","n","a","l","d","_","j","o","n","e","s">>)
    @@ (<<"R","o","n","a","l","d"," ","J","o","n","e","s">>
        :> <<"r","o","n","a","l","d","_","j","o","n","e","s">>)
    @@ (<<"D","a","r","r","e","l","l"," ","H","e","n","d","e","r","s","o","n">>
        :> <<"d","a","r","r","e","l","l","_","h","e","n","d","e","r","s","o","n">>)
    @@ (<<"D","a","r","r","e","l","l"," ","H","e","n","d","e","r","s","o","n"," ","J","r",".">>
        :> <<"d","a","r","r","e","l","l","_","h","e","n","d","e","r","s","o","n">>)
    @@ (<<"M","a","r","k"," ","I","n","g","r","a","m">>
        :> <<"m","a","r","k","_","i","n","g","r","a","m">>)
    @@ (<<"M","a","r","k"," ","I","n","g","r","a","m"," ","I","I">>
        :> <<"m","a","r","k","_","i","n","g","r","a","m">>)
    @@ (<<"I","s","a","i","h"," ","P","a","c","h","e","c","o">>
        :> <<"i","s","i","a","h","_","p","a","c","h","e","c","o">>)
    @@ (<<"I","s","i","a","h"," ","P","a","c","h","e","c","o">>
        :> <<"i","s","i","a","h","_","p","a","c","h","e","c","o">>)
    @@ (<<"B","r","i","a","n"," ","R","o","b","i","n","s","o","n"," ","J","r",".">>
        :> <<"b","r","i","a","n","_","r","o","b","i","n","s","o","n">>)
    @@ (<<"B","r","i","a","n"," ","R","o","b","i","n","s","o","n">>
        :> <<"b","r","i","a","n","_","r","o","b","i","n","s","o","n">>)
    @@ (<<"J","e","f","f","e","r","y"," ","W","i","l","s","o","n">>
        :> <<"j","e","f","f","e","r","y","_","w","i","l","s","o","n">>)
    @@ (<<"J","e","f","f"," ","W","i","l","s","o","n"," ","J","r",".">>
        :> <<"j","e","f","f","e","r","y","_","w","i","l","s","o","n">>)
    @@ (<<"A","l","l","e","n"," ","R","o","b","i","n","s","o","n">>
        :> <<"a","l","l","e","n","_","r","o","b","i","n","s","o","n">>)
    @@ (<<"A","l","l","e","n"," ","R","o","b","i","n","s","o","n"," ","I","I">>
        :> <<"a","l","l","e","n","_","r","o","b","i","n","s","o","n">>)
    @@ (<<"G","a","b","r","i","e","l"," ","D","a","v","i","s">>
        :> <<"g","a","b","e","_","d","a","v","i","s">>)
    @@ (<<"G","a","b","e"," ","D","a","v","i","s">>
        :> <<"g","a","b","e","_","d","a","v","i","s">>)
    @@ (<<"J","o","s","h"," ","P","a","l","m","e","r">>
        :> <<"j","o","s","h","_","p","a","l","m","e","r">>)
    @@ (<<"J","o","s","h","u","a"," ","P","a","l","m","e","r">>
        :> <<"j","o","s","h","_","p","a","l","m","e","r">>)
    @@ (<<"R","o","b","b","y"," ","A","n","d","e","r","s","o","n">>
        :> <<"r","o","b","b","i","e","_","a","n","d","e","r","s","o","n">>)
    @@ (<<"R","o","b","b","i","e"," ","A","n","d","e","r","s","o","n">>
        :> <<"r","o","b","b","i","e","_","a","n","d","e","r","s","o","n">>)
    @@ (<<"M","a","r","v","i","n"," ","J","o","n","e","s">>
        :> <<"m","a","r","v","i","n","_","j","o","n","e","s">>)
    @@ (<<"M","a","r","v","i","n"," ","J","o","n","e","s"," ","J","r",".">>
        :> <<"m","a","r","v","i","n","_","j","o","n","e","s">>)
    @@ (<<"R","o","b","e","r","t"," ","T","o","n","y","a","n"," ","J","r",".">>
        :> <<"r","o","b","e","r","t","_","t","o","n","y","a","n">>)
    @@ (<<"R","o","b","e","r","t"," ","T","o","n","y","a","n">>
        :> <<"r","o","b","e","r","t","_","t","o","n","y","a","n">>)

MY_GUYS ==
    { <<"a","j","_","d","i","l","l","o","n">>,
      <<"a","l","l","e","n","_","l","a","z","a","r","d">>,
      <<"a","l","l","e","n","_","r","o","b","i","n","s","o","n">>,
      <<"c","h","a","s","e","_","e","d","m","o","n","d","s">>,
      <<"c","o","u","r","t","l","a","n","d","_","s","u","t","t","o","n">>,
      <<"g","a","b","e","_","d","a","v","i","s">>,
      <<"j","a","l","e","n","_","h","u","r","t","s">>,
      <<"m","i","c","h","a","e","l","_","p","i","t","t","m","a","n","_","j","r">>,
      <<"m","i","k","e","_","w","i","l","l","i","a","m","s">> }


-----------------------------------------------------------------------------
(* str.replace, str.lower and int() *)

UPPERCASE == <<"A","B","C","D","E","F","G","H","I","J","K","L","M",
               "N","O","P","Q","R","S","T","U","V","W","X","Y","Z">>
LOWERCASE == <<"a","b","c","d","e","f","g","h","i","j","k","l","m",
               "n","o","p","q","r","s","t","u","v","w","x","y","z">>

lower_char(c) ==
    IF \E i \in DOMAIN UPPERCASE : UPPERCASE[i] = c
    THEN LOWERCASE[CHOOSE i \in DOMAIN UPPERCASE : UPPERCASE[i] = c]
    ELSE c

lower(s) == [i \in DOMAIN s |-> lower_char(s[i])]

RECURSIVE replace(_, _, _)
replace(s, old, new) ==
    IF s = <<>> THEN <<>>
    ELSE (IF Head(s) = old THEN new ELSE <<Head(s)>>)
         \o replace(Tail(s), old, new)

DIGITS == <<"0","1","2","3","4","5","6","7","8","9">>

is_digit(c) == \E i \in DOMAIN DIGITS : DIGITS[i] = c
digit_value(c) == (CHOOSE i \in DOMAIN DIGITS : DIGITS[i] = c) - 1

RECURSIVE strip_left(_)
strip_left(s) ==
    IF s # <<>> /\ Head(s) = " " THEN strip_left(Tail(s)) ELSE s

RECURSIVE strip_right(_)
strip_right(s) ==
    IF s # <<>> /\ s[Len(s)] = " "
    THEN strip_right(SubSeq(s, 1, Len(s) - 1)) ELSE s

RECURSIVE digits_value(_)
digits_value(s) ==
    IF s = <<>> THEN 0
    ELSE 10 * digits_value(SubSeq(s, 1, Len(s) - 1)) + digit_value(s[Len(s)])

\* int(text): [ok |-> TRUE, value |-> n], or [ok |-> FALSE] for ValueError
int(text) ==
    LET s == strip_right(strip_left(text))
        signed == s # <<>> /\ Head(s) \in {"+", "-"}
        body == IF signed THEN Tail(s) ELSE s
    IN  IF body # <<>> /\ \A i \in DOMAIN body : is_digit(body[i])
        THEN [ok |-> TRUE,
              value |-> IF signed /\ Head(s) = "-"
                        THEN 0 - digits_value(body) ELSE digits_value(body)]
        ELSE [ok |-> FALSE]

-----------------------------------------------------------------------------
(* dict: insertion-ordered mapping, a sequence of [k, v] items.  Assigning *)
(* to a key already present keeps its place in the iteration order.        *)

dict_keys(d) == {d[i].k : i \in DOMAIN d}
dict_has(d, key) == key \in dict_keys(d)
dict_index(d, key) == CHOOSE i \in DOMAIN d : d[i].k = key
dict_get(d, key) == d[dict_index(d, key)].v
dict_set(d, key, value) ==
    IF dict_has(d, key)
    THEN [d EXCEPT ![dict_index(d, key)] = [k |-> key, v |-> value]]
    ELSE Append(d, [k |-> key, v |-> value])

\* record[field] = value on a player object (a dict of fields)
set_field(record, field, value) ==
    [f \in DOMAIN record \cup {field} |->
        IF f = field THEN value ELSE record[f]]

\* json.dumps / json.load of a snapshot file
json_dumps(obj) == <<"json", obj>>
json_load(text) == text[2]

-----------------------------------------------------------------------------
(* Inputs: what the sources can answer and what the files can hold *)

RECURSIVE seqs_upto(_, _)
seqs_upto(S, n) ==
    IF n = 0 THEN {<<>>}
    ELSE LET shorter == seqs_upto(S, n - 1)
         IN  shorter \cup {Append(q, x) : q \in {r \in shorter : Len(r) = n - 1}, x \in S}

\* player objects of the primary source (adp in tenths of a pick)
AdpPlayers ==
    { [name |-> <<"T","r","a","v","i","s"," ","E","t","i","e","n","n","e"," ","J","r",".">>, position |-> <<"R","B">>, adp |-> 214, team |-> "JAX"],
      [name |-> <<"T","r","a","v","i","s"," ","E","t","i","e","n","n","e">>, position |-> <<"R","B">>, adp |-> 209, team |-> "JAX"],
      [name |-> <<"A",".","J","."," ","D","i","l","l","o","n">>, position |-> <<"R","B">>, adp |-> 209, team |-> "GB"] }

AdpReplies ==
    { [kind |-> "exception"], [kind |-> "http", ok |-> FALSE] }
    \cup { [kind |-> "http", ok |-> TRUE, status |-> "Failure", players |-> <<>>] }
    \cup { [kind |-> "http", ok |-> TRUE, status |-> "Success", players |-> ps] :
              ps \in seqs_upto(AdpPlayers, MaxPlayers) }

\* rows of a ranking CSV
RankNames == { <<"T","r","a","v","i","s"," ","E","t","i","e","n","n","e">>, <<"A","J"," ","D","i","l","l","o","n">>, <<"G","a","b","e"," ","D","a","v","i","s">> }
RankScores ==
    { [Rank |-> <<"3">>, Andy |-> <<"4">>, Mike |-> <<"2">>, Jason |-> <<"5">>],
      [Rank |-> <<"N","/","A">>, Andy |-> <<"4">>, Mike |-> <<"2">>, Jason |-> <<"5">>],
      [Rank |-> <<"3">>, Andy |-> <<"4">>, Mike |-> <<>>, Jason |-> <<"5">>] }
RankRows ==
    { [Name |-> n, Rank |-> s.Rank, Andy |-> s.Andy, Mike |-> s.Mike, Jason |-> s.Jason] :
          n \in RankNames, s \in RankScores }

\* entries of the secondary source
SdioPlayers ==
    { [Name |-> <<"T","r","a","v","i","s"," ","E","t","i","e","n","n","e">>, DepthOrder |-> 1, DepthDisplayOrder |-> 1],
      [Name |-> <<"G","a","b","e"," ","D","a","v","i","s">>, DepthOrder |-> 2, DepthDisplayOrder |-> 2] }
SdioBodies == seqs_upto(SdioPlayers, MaxEntries)
SdioReplies ==
    { [kind |-> "exception"], [kind |-> "http", ok |-> FALSE] }
    \cup { [kind |-> "http", ok |-> TRUE, body |-> b] : b \in SdioBodies }

Args == [clear_cache : BOOLEAN, clear_sd : BOOLEAN, sports_data_api_key : {None, "key"}]

-----------------------------------------------------------------------------
(* get_adp_data, lines 63-111 *)

\* lines 91-96: the identity key of a player of the primary source
adp_key(name) ==
    LET key == lower(replace(replace(name, " ", <<"_">>), ".", <<>>))
    IN  IF name \in DOMAIN PLAYER_NAME_MAP THEN PLAYER_NAME_MAP[name] ELSE key

\* the loop with the first occurrence of a key kept
RECURSIVE adp_loop_first(_, _, _)
adp_loop_first(players, data, logged) ==
    IF players = <<>> THEN [data |-> data, log |-> logged]
    ELSE LET player == Head(players)
             key == adp_key(player.name)
         IN  IF dict_has(data, key)
             THEN adp_loop_first(Tail(players), data,
                     logged \o <<[error |-> "has duplicate hits.", about |-> player.name]>>)
             ELSE adp_loop_first(Tail(players), dict_set(data, key, player), logged)

\* lines 90-103: the loop over the players of the response
RECURSIVE adp_loop(_, _, _)
adp_loop(players, data, logged) ==
    IF players = <<>> THEN [data |-> data, log |-> logged]
    ELSE LET player == Head(players)
             key == adp_key(player.name)
             dup == IF dict_has(data, key)
                    THEN <<[error |-> "has duplicate hits.", about |-> player.name]>>
                    ELSE <<>>
         IN  adp_loop(Tail(players), dict_set(data, key, player), logged \o dup)

\* lines 83-111: the value returned or the exception raised for a reply
get_adp_data_result(reply) ==
    IF reply.kind = "exception"
    THEN [raised |-> "requests.get", log |-> <<>>]
    ELSE IF ~reply.ok
    THEN [raised |-> "Bad ADP API Call",
          log |-> <<[error |-> "Bad API call", about |-> "adp"]>>]
    ELSE IF reply.status # "Success"
    THEN [raised |-> "Bad ADP API Call Status",
          log |-> <<[error |-> "Bad API call with Status", about |-> reply.status]>>]
    ELSE LET r == adp_loop(reply.players, <<>>, <<>>)
         IN  [raised |-> None, data |-> r.data, log |-> r.log]

-----------------------------------------------------------------------------
(* add_player_rankings, lines 114-159 *)

position_files == <<"qb.csv", "rb.csv", "wr.csv", "te.csv">>

\* lines 137-142: the identity key of a ranking row
rank_key(name) ==
    LET key == lower(replace(replace(name, " ", <<"_">>), ".", <<>>))
    IN  IF name \in DOMAIN PLAYER_NAME_MAP THEN PLAYER_NAME_MAP[name] ELSE key

\* lines 153-159: the assignments of the try block, in order, up to the
\* first int() that raises
RECURSIVE set_rankings(_, _, _)
set_rankings(record, row, fields) ==
    IF fields = <<>> THEN [record |-> record, ok |-> TRUE]
    ELSE LET parsed == int(row[Head(fields)[1]])
         IN  IF parsed.ok
             THEN set_rankings(set_field(record, Head(fields)[2], parsed.value),
                               row, Tail(fields))
             ELSE [record |-> record, ok |-> FALSE]

rank_fields ==
    << <<"Rank", "rank">>, <<"Andy", "andy">>, <<"Mike", "mike">>, <<"Jason", "jason">> >>

\* an iteration that files the row of an unknown player as a new record
rank_row_creates(data, row) ==
    LET key == rank_key(row.Name)
        known == IF dict_has(data, key) THEN dict_get(data, key) ELSE [name |-> row.Name]
        flagged == set_field(known, "my_guy", key \in MY_GUYS)
        r == set_rankings(flagged, row, rank_fields)
    IN  [data |-> dict_set(data, key, r.record),
         log |-> IF r.ok THEN <<>>
                 ELSE <<[error |-> "Bad Values for", about |-> row.Name]>>]

\* lines 136-159: one iteration of the loop over the rows of a file
rank_row(data, row) ==
    LET key == rank_key(row.Name)
    IN  IF ~dict_has(data, key)
        THEN [data |-> data, log |-> <<>>]
        ELSE LET flagged == set_field(dict_get(data, key), "my_guy", key \in MY_GUYS)
                 r == set_rankings(flagged, row, rank_fields)
             IN  [data |-> dict_set(data, key, r.record),
                  log |-> IF r.ok THEN <<>>
                          ELSE <<[error |-> "Bad Values for", about |-> row.Name]>>]

-----------------------------------------------------------------------------
(* get_sportsdataio_data, lines 194-263 *)

\* a key that keeps the periods of the name
sdio_key_periods(name) ==
    LET key == lower(replace(name, " ", <<"_">>))
    IN  IF name \in DOMAIN PLAYER_NAME_MAP THEN PLAYER_NAME_MAP[name] ELSE key

\* lines 250-255: the identity key of an entry of the secondary source
sdio_key(name) ==
    LET key == lower(replace(replace(name, " ", <<"_">>), ".", <<>>))
    IN  IF name \in DOMAIN PLAYER_NAME_MAP THEN PLAYER_NAME_MAP[name] ELSE key

\* lines 249-261: the loop over the entries
RECURSIVE sdio_loop(_, _)
sdio_loop(entries, data) ==
    IF entries = <<>> THEN data
    ELSE LET player == Head(entries)
             key == sdio_key(player.Name)
         IN  IF dict_has(data, key)
             THEN sdio_loop(Tail(entries),
                     dict_set(data, key,
                        set_field(set_field(dict_get(data, key),
                                            "depth_order", player.DepthOrder),
                                  "depth_display_order", player.DepthDisplayOrder)))
             ELSE sdio_loop(Tail(entries), data)

\* lines 246-263: map the loaded entries, or report that there are none
sdio_map(sdio_json, data) ==
    IF Len(sdio_json) > 0
    THEN [data |-> sdio_loop(sdio_json, data), log |-> <<>>]
    ELSE [data |-> data, log |-> <<[error |-> "No SportsData.IO Data loaded", about |-> "sdio"]>>]

\* a load that ignores the clear flag
sdio_from_cache_always(file, clear_cache) ==
    IF file # NoFile THEN json_load(file) ELSE <<>>

\* lines 208-214: what is loaded from the snapshot file
sdio_from_cache(file, clear_cache) ==
    IF file # NoFile /\ clear_cache = FALSE THEN json_load(file) ELSE <<>>

\* a missing key that raises instead of returning
sdio_no_key_raises(file, data, logged) ==
    [raised |-> "SportsData.IO Key is not defined", data |-> data, file |-> file,
     calls |-> 0, log |-> logged]

\* lines 219-221: no key is defined, the function returns
sdio_no_key(file, data, logged) ==
    [raised |-> None, data |-> data, file |-> file, calls |-> 0,
     log |-> logged \o <<[error |-> "SportsData.IO Key is not defined", about |-> "sdio"]>>]

\* a call that never saves the response
sdio_call_unsaved(file, data, reply, logged) ==
    IF reply.kind = "exception"
    THEN [raised |-> "requests.get", data |-> data, file |-> file,
          calls |-> 1, log |-> logged]
    ELSE IF reply.ok
    THEN LET m == sdio_map(reply.body, data)
         IN  [raised |-> None, data |-> m.data, file |-> file,
              calls |-> 1, log |-> logged \o m.log]
    ELSE [raised |-> "Bad SportData.IO API Call", data |-> data, file |-> file,
          calls |-> 1,
          log |-> logged \o <<[error |-> "Bad API call", about |-> "sdio"]>>]

\* lines 233-263: the call of the API for the reply it gives, then the mapping
sdio_call(file, data, reply, logged) ==
    IF reply.kind = "exception"
    THEN [raised |-> "requests.get", data |-> data, file |-> file,
          calls |-> 1, log |-> logged]
    ELSE IF reply.ok
    THEN LET m == sdio_map(reply.body, data)
         IN  [raised |-> None, data |-> m.data, file |-> json_dumps(reply.body),
              calls |-> 1, log |-> logged \o m.log]
    ELSE [raised |-> "Bad SportData.IO API Call", data |-> data, file |-> file,
          calls |-> 1,
          log |-> logged \o <<[error |-> "Bad API call", about |-> "sdio"]>>]

\* lines 204-263: the whole function, for the reply the network gives when
\* it is called
get_sportsdataio_data_result(a, file, data, reply) ==
    LET cached == sdio_from_cache(file, a.clear_sd)
        loading == IF file # NoFile /\ a.clear_sd = FALSE
                   THEN <<[error |-> "LOADING SPORTSDATA.IO FROM CACHE", about |-> "sdio"]>>
                   ELSE <<>>
    IN  IF Len(cached) < 1
        THEN IF a.sports_data_api_key = None
             THEN sdio_no_key(file, data, loading)
             ELSE sdio_call(file, data, reply, loading)
        ELSE LET m == sdio_map(cached, data)
             IN  [raised |-> None, data |-> m.data, file |-> file, calls |-> 0,
                  log |-> loading \o m.log]

-----------------------------------------------------------------------------
(* organize_db_data, lines 162-191 *)

\* a sort that places a record before the records of equal adp
RECURSIVE sorted_by_adp_unstable(_)
sorted_by_adp_unstable(list) ==
    IF list = <<>> THEN <<>>
    ELSE LET front == sorted_by_adp_unstable(SubSeq(list, 1, Len(list) - 1))
             x == list[Len(list)]
             n == Cardinality({i \in DOMAIN front : front[i].adp < x.adp})
         IN  SubSeq(front, 1, n) \o <<x>> \o SubSeq(front, n + 1, Len(front))

\* sorted(list, key=lambda d: d["adp"]): ascending, equal keys keep their order
RECURSIVE sorted_by_adp(_)
sorted_by_adp(list) ==
    IF list = <<>> THEN <<>>
    ELSE LET front == sorted_by_adp(SubSeq(list, 1, Len(list) - 1))
             x == list[Len(list)]
             n == Cardinality({i \in DOMAIN front : front[i].adp <= x.adp})
         IN  SubSeq(front, 1, n) \o <<x>> \o SubSeq(front, n + 1, Len(front))

\* line 171
empty_board == (<<"q","b">> :> <<>>) @@ (<<"r","b">> :> <<>>) @@ (<<"w","r">> :> <<>>) @@ (<<"t","e">> :> <<>>)

\* the loop with the position compared as spelled, without lower()
RECURSIVE position_lists_cased(_, _, _)
position_lists_cased(data, board, logged) ==
    IF data = <<>> THEN [board |-> board, log |-> logged]
    ELSE LET record == Head(data).v
             position_k == record.position
         IN  IF position_k \in {<<"d","e","f">>, <<"p","k">>}
             THEN position_lists_cased(Tail(data), board, logged)
             ELSE IF position_k \in DOMAIN board
             THEN position_lists_cased(Tail(data),
                     [board EXCEPT ![position_k] = Append(@, record)], logged)
             ELSE position_lists_cased(Tail(data), board,
                     logged \o <<[error |-> "Position not found", about |-> position_k]>>)

\* lines 174-185: the loop over the keys of the mapping
RECURSIVE position_lists(_, _, _)
position_lists(data, board, logged) ==
    IF data = <<>> THEN [board |-> board, log |-> logged]
    ELSE LET record == Head(data).v
             position_k == lower(record.position)
         IN  IF position_k \in {<<"d","e","f">>, <<"p","k">>}
             THEN position_lists(Tail(data), board, logged)
             ELSE IF position_k \in DOMAIN board
             THEN position_lists(Tail(data),
                     [board EXCEPT ![position_k] = Append(@, record)], logged)
             ELSE position_lists(Tail(data), board,
                     logged \o <<[error |-> "Position not found", about |-> position_k]>>)

organize_db_data(data) ==
    LET lists == position_lists(data, empty_board, <<>>)
    IN  [board |-> [position_k \in DOMAIN lists.board |->
                        sorted_by_adp(lists.board[position_k])],
         log |-> lists.log]

-----------------------------------------------------------------------------
(* main, lines 305-365 *)

\* a snapshot of the merged mapping that an earlier run has written, lines
\* 357-358: the mapping of a response with one player, nothing merged into it
EarlierSnapshots ==
    { json_dumps(adp_loop(<<p>>, <<>>, <<>>).data) :
          p \in {q \in AdpPlayers : q.name = <<"T","r","a","v","i","s"," ","E","t","i","e","n","n","e">>} }

\* responses of the secondary source that an earlier run has saved, lines
\* 239-241: an empty one, and one with a player
EarlierBodies ==
    { <<>> } \cup { <<e>> : e \in {x \in SdioPlayers : x.Name = <<"T","r","a","v","i","s"," ","E","t","i","e","n","n","e">>} }

Init ==
    /\ pc = "main"
    /\ args \in Args
    /\ export_file \in {NoFile} \cup EarlierSnapshots
    /\ sd_file \in {NoFile} \cup {json_dumps(b) : b \in EarlierBodies}
    /\ adp_data = <<>>
    /\ rank_pos = [file |-> 1, rows |-> 0]
    /\ db_data = <<>>
    /\ log = <<>>
    /\ raised = None
    /\ invoked = <<>>
    /\ net = [adp |-> 0, sdio |-> 0]
    /\ done = {}
    /\ nm = [name |-> <<>>, keys |-> <<>>, rekeys |-> <<>>]

\* a test that ignores the clear-cache flag
cache_hit_unclearable == export_file # NoFile

\* line 342
cache_hit == export_file # NoFile /\ args.clear_cache = FALSE

\* lines 342-345: the snapshot is loaded in place of the three ingestors
MainLoadCache ==
    /\ pc = "main"
    /\ cache_hit
    /\ adp_data' = json_load(export_file)
    /\ log' = <<[error |-> "LOADING DATA FROM CACHE", about |-> "main"]>>
    /\ pc' = "organize_db_data"
    /\ UNCHANGED <<args, export_file, sd_file, rank_pos, db_data, raised,
                   invoked, net, done, nm>>

\* line 348: adp_data = get_adp_data(datamap)
GetAdpData(reply) ==
    /\ pc = "main"
    /\ ~cache_hit
    /\ LET r == get_adp_data_result(reply)
       IN  /\ invoked' = Append(invoked, "get_adp_data")
           /\ net' = [net EXCEPT !.adp = @ + 1]
           /\ log' = r.log
           /\ raised' = r.raised
           /\ IF r.raised = None
              THEN adp_data' = r.data /\ pc' = "add_player_rankings"
              ELSE adp_data' = adp_data /\ pc' = "aborted"
    /\ UNCHANGED <<args, export_file, sd_file, rank_pos, db_data, done, nm>>

\* line 125 after the current file: the next file, or the return to main
next_file ==
    /\ rank_pos' = [file |-> rank_pos.file + 1, rows |-> 0]
    /\ pc' = IF rank_pos.file = Len(position_files)
             THEN "get_sportsdataio_data" ELSE pc

rank_invoked ==
    IF rank_pos = [file |-> 1, rows |-> 0]
    THEN Append(invoked, "add_player_rankings") ELSE invoked

\* lines 129-131: the file of this position does not exist
RankFileMissing ==
    /\ pc = "add_player_rankings"
    /\ rank_pos.rows = 0
    /\ log' = <<[error |-> "Ranking File Does Not Exist",
                 about |-> position_files[rank_pos.file]]>>
    /\ invoked' = rank_invoked
    /\ next_file
    /\ UNCHANGED <<args, export_file, sd_file, adp_data, db_data, raised,
                   net, done, nm>>

\* lines 136-159: the reader yields one more row of the open file
RankRow(row) ==
    /\ pc = "add_player_rankings"
    /\ rank_pos.rows < MaxRows
    /\ LET r == rank_row(adp_data, row)
       IN  adp_data' = r.data /\ log' = r.log
    /\ invoked' = rank_invoked
    /\ rank_pos' = [rank_pos EXCEPT !.rows = @ + 1]
    /\ UNCHANGED <<pc, args, export_file, sd_file, db_data, raised, net, done, nm>>

\* line 136: the reader is exhausted
RankEndOfFile ==
    /\ pc = "add_player_rankings"
    /\ log' = <<>>
    /\ invoked' = rank_invoked
    /\ next_file
    /\ UNCHANGED <<args, export_file, sd_file, adp_data, db_data, raised,
                   net, done, nm>>

\* line 354: get_sportsdataio_data(datamap, adp_data, args.clear_sd)
GetSportsdataioData(reply) ==
    /\ pc = "get_sportsdataio_data"
    /\ LET r == get_sportsdataio_data_result(args, sd_file, adp_data, reply)
       IN  /\ adp_data' = r.data
           /\ sd_file' = r.file
           /\ net' = [net EXCEPT !.sdio = @ + r.calls]
           /\ log' = r.log
           /\ raised' = r.raised
           /\ pc' = IF r.raised = None THEN "write" ELSE "aborted"
    /\ invoked' = Append(invoked, "get_sportsdataio_data")
    /\ UNCHANGED <<args, export_file, rank_pos, db_data, done, nm>>

\* lines 357-358: the merged mapping is saved
MainWriteSnapshot ==
    /\ pc = "write"
    /\ export_file' = json_dumps(adp_data)
    /\ done' = done \cup {"snapshot"}
    /\ log' = <<>>
    /\ pc' = "organize_db_data"
    /\ UNCHANGED <<args, sd_file, adp_data, rank_pos, db_data, raised,
                   invoked, net, nm>>

\* line 361: draft_board_data = organize_db_data(adp_data)
OrganizeDbData ==
    /\ pc = "organize_db_data"
    /\ LET r == organize_db_data(adp_data)
       IN  db_data' = r.board /\ log' = r.log
    /\ pc' = "generate_html_v1"
    /\ UNCHANGED <<args, export_file, sd_file, adp_data, rank_pos, raised,
                   invoked, net, done, nm>>

\* line 364
GenerateHtml ==
    /\ pc = "generate_html_v1"
    /\ done' = done \cup {"html"}
    /\ log' = <<>>
    /\ pc' = "generate_pdf_v1"
    /\ UNCHANGED <<args, export_file, sd_file, adp_data, rank_pos, db_data,
                   raised, invoked, net, nm>>

\* line 365
GeneratePdf ==
    /\ pc = "generate_pdf_v1"
    /\ done' = done \cup {"pdf"}
    /\ log' = <<>>
    /\ pc' = "done"
    /\ UNCHANGED <<args, export_file, sd_file, adp_data, rank_pos, db_data,
                   raised, invoked, net, nm>>

Next ==
    \/ MainLoadCache
    \/ \E reply \in AdpReplies : GetAdpData(reply)
    \/ RankFileMissing
    \/ \E row \in RankRows : RankRow(row)
    \/ RankEndOfFile
    \/ \E reply \in SdioReplies : GetSportsdataioData(reply)
    \/ MainWriteSnapshot
    \/ OrganizeDbData
    \/ GenerateHtml
    \/ GeneratePdf

Spec == Init /\ [][Next]_vars

-----------------------------------------------------------------------------
(* The organizer on the snapshots of earlier runs: main with a cache hit *)

BoardNames == { <<"T","r","a","v","i","s"," ","E","t","i","e","n","n","e">>, <<"A",".","J","."," ","D","i","l","l","o","n">>, <<"G","a","b","e"," ","D","a","v","i","s">> }
BoardPositions == { <<"Q","B">>, <<"r","b">>, <<"W","r">>, <<"T","E">>, <<"D","E","F">>, <<"P","K">>, <<"K">> }
BoardPlayers ==
    [name : BoardNames, position : BoardPositions, adp : {209, 214}, team : {"FA"}]

BoardSnapshots ==
    { json_dumps(adp_loop(ps, <<>>, <<>>).data) : ps \in seqs_upto(BoardPlayers, MaxBoard) }

InitOrganize ==
    /\ pc = "main"
    /\ args = [clear_cache |-> FALSE, clear_sd |-> FALSE, sports_data_api_key |-> None]
    /\ export_file \in BoardSnapshots
    /\ sd_file = NoFile
    /\ adp_data = <<>>
    /\ rank_pos = [file |-> 1, rows |-> 0]
    /\ db_data = <<>>
    /\ log = <<>>
    /\ raised = None
    /\ invoked = <<>>
    /\ net = [adp |-> 0, sdio |-> 0]
    /\ done = {}
    /\ nm = [name |-> <<>>, keys |-> <<>>, rekeys |-> <<>>]

NextOrganize ==
    \/ MainLoadCache
    \/ OrganizeDbData
    \/ GenerateHtml
    \/ GeneratePdf

SpecOrganize == InitOrganize /\ [][NextOrganize]_vars

-----------------------------------------------------------------------------
(* The name normalization of the three ingestors applied to one name *)

\* line 92: the transform of a name that has no alias
default_transform(name) == lower(replace(replace(name, " ", <<"_">>), ".", <<>>))

NameAlphabet == {"J", "r", " ", ".", "_"}
DisplayNames == seqs_upto(NameAlphabet, MaxNameLen) \cup DOMAIN PLAYER_NAME_MAP

InitNormalize ==
    /\ pc = "normalize"
    /\ nm \in [name : DisplayNames, keys : {<<>>}, rekeys : {<<>>}]
    /\ args = [clear_cache |-> FALSE, clear_sd |-> FALSE, sports_data_api_key |-> None]
    /\ export_file = NoFile
    /\ sd_file = NoFile
    /\ adp_data = <<>>
    /\ rank_pos = [file |-> 1, rows |-> 0]
    /\ db_data = <<>>
    /\ log = <<>>
    /\ raised = None
    /\ invoked = <<>>
    /\ net = [adp |-> 0, sdio |-> 0]
    /\ done = {}

\* the key of the name, and the key of its default transform
normalized(ingestor, key, rekey) ==
    /\ pc = "normalize"
    /\ ingestor \notin DOMAIN nm.keys
    /\ nm' = [nm EXCEPT !.keys = @ @@ (ingestor :> key),
                        !.rekeys = @ @@ (ingestor :> rekey)]
    /\ UNCHANGED <<pc, args, export_file, sd_file, adp_data, rank_pos, db_data,
                   log, raised, invoked, net, done>>

NormalizeAdp ==
    normalized("get_adp_data", adp_key(nm.name), adp_key(default_transform(nm.name)))

NormalizeRank ==
    normalized("add_player_rankings", rank_key(nm.name),
               rank_key(default_transform(nm.name)))

NormalizeSdio ==
    normalized("get_sportsdataio_data", sdio_key(nm.name),
               sdio_key(default_transform(nm.name)))

NextNormalize ==
    \/ NormalizeAdp
    \/ NormalizeRank
    \/ NormalizeSdio

SpecNormalize == InitNormalize /\ [][NextNormalize]_vars

-----------------------------------------------------------------------------
(* Properties of the organizer, checked under SpecOrganize *)

Organized == pc \in {"generate_html_v1", "generate_pdf_v1", "done"}
BoardKeys == { <<"q","b">>, <<"r","b">>, <<"w","r">>, <<"t","e">> }

\* the place of a record in the iteration order of the mapping
place(record) == CHOOSE n \in DOMAIN adp_data : adp_data[n].v = record

\* C2: the board has exactly the keys qb, rb, wr, te, and the bucket of a
\* position holds exactly the records of the mapping whose position,
\* lowercased, is that position, each once; records of any other position
\* (def, pk, unrecognized) are in no bucket.
C2_BoardPartition ==
    Organized =>
        /\ DOMAIN db_data = BoardKeys
        /\ \A p \in BoardKeys :
              LET members == {i \in DOMAIN adp_data : lower(adp_data[i].v.position) = p}
              IN  /\ Len(db_data[p]) = Cardinality(members)
                  /\ \A i \in members :
                        \E j \in DOMAIN db_data[p] : db_data[p][j] = adp_data[i].v
                  /\ \A j \in DOMAIN db_data[p] :
                        lower(db_data[p][j].position) = p

\* a board with an empty bucket, a record of a lowercased position kept and
\* a record dropped
C2_Witness ==
    /\ pc = "done"
    /\ Len(adp_data) = 2
    /\ db_data[<<"t","e">>] = <<>>
    /\ Len(db_data[<<"w","r">>]) = 1
    /\ db_data[<<"w","r">>][1].position = <<"W","r">>
    /\ \E i \in DOMAIN adp_data : adp_data[i].v.position = <<"P","K">>

\* C3: every bucket is ascending by adp, and records of equal adp are in the
\* order in which the mapping iterates their keys.
C3_BoardSortedStable ==
    Organized =>
        \A p \in DOMAIN db_data :
            \A i, j \in DOMAIN db_data[p] :
                i < j =>
                    /\ db_data[p][i].adp <= db_data[p][j].adp
                    /\ db_data[p][i].adp = db_data[p][j].adp
                          => place(db_data[p][i]) < place(db_data[p][j])

\* a bucket of two records of equal adp
C3_Witness ==
    /\ pc = "done"
    /\ \E p \in DOMAIN db_data :
          /\ Len(db_data[p]) = 2
          /\ db_data[p][1].adp = db_data[p][2].adp
          /\ db_data[p][1] # db_data[p][2]

-----------------------------------------------------------------------------
(* Properties of the normalization, checked under SpecNormalize *)

Ingestors == {"get_adp_data", "add_player_rankings", "get_sportsdataio_data"}

\* C9: the three ingestors compute the same key for a name, and for a name
\* that is not in PLAYER_NAME_MAP the key of its default transform is the
\* key of the name.
C9_NormalizeIdempotent ==
    /\ \A i, j \in DOMAIN nm.keys : nm.keys[i] = nm.keys[j]
    /\ nm.name \notin DOMAIN PLAYER_NAME_MAP =>
          \A i \in DOMAIN nm.keys : nm.rekeys[i] = nm.keys[i]

\* a name with an upper case letter, a period and a space, keyed by all three
C9_Witness ==
    /\ nm.name = <<"J", ".", " ">>
    /\ DOMAIN nm.keys = Ingestors
    /\ nm.keys["get_adp_data"] = <<"j", "_">>

-----------------------------------------------------------------------------
(* Properties of the merge, checked under Spec *)

Enriching == pc \in {"add_player_rankings", "get_sportsdataio_data"}

\* the identity key of each row that a ranking file can hold
RowKey == [row \in RankRows |-> rank_key(row.Name)]

\* C1: once get_adp_data has returned the mapping, no step of
\* add_player_rankings or get_sportsdataio_data adds or removes a key; a
\* ranking row whose key is not in the mapping changes nothing, and the
\* secondary ingestor changes only records whose key one of its entries has.
C1_PrimaryGated ==
    [][ /\ Enriching => dict_keys(adp_data') = dict_keys(adp_data)
        /\ Enriching => Len(adp_data') = Len(adp_data)
        /\ \A row \in RankRows :
              (pc = "add_player_rankings" /\ ~dict_has(adp_data, RowKey[row])
                 /\ RankRow(row))
                  => adp_data' = adp_data
        /\ pc = "get_sportsdataio_data" =>
              \A i \in DOMAIN adp_data :
                  adp_data'[i] # adp_data[i] =>
                      \E e \in SdioPlayers : sdio_key(e.Name) = adp_data[i].k
      ]_vars

\* the merge has ended after a response of the secondary source whose only
\* entry is a player the primary source does not have
C1_Witness ==
    /\ pc = "write"
    /\ net.sdio = 1
    /\ sd_file = json_dumps(<<[Name |-> <<"G","a","b","e"," ","D","a","v","i","s">>, DepthOrder |-> 2,
                              DepthDisplayOrder |-> 2]>>)
    /\ dict_keys(adp_data) = {<<"t","r","a","v","i","s","_","e","t","i","e","n","n","e">>, <<"a","j","_","d","i","l","l","o","n">>}

NumericColumns == {"Rank", "Andy", "Mike", "Jason"}
NumericFields == {"rank", "andy", "mike", "jason"}

\* C4: a row of a known player with a numeric column that int() rejects is
\* reported, sets none of rank, andy, mike, jason on the record, leaves the
\* other fields as merged, and the loop goes on.
C4_BadRowSetsNoRanking ==
    [][ \A row \in RankRows :
          ( /\ RankRow(row)
            /\ dict_has(adp_data, rank_key(row.Name))
            /\ \E c \in NumericColumns : ~int(row[c]).ok )
          => LET key == rank_key(row.Name)
                 was == dict_get(adp_data, key)
                 is == dict_get(adp_data', key)
             IN  /\ \E n \in DOMAIN log' : log'[n].error = "Bad Values for"
                 /\ \A f \in NumericFields :
                       /\ f \in DOMAIN is <=> f \in DOMAIN was
                       /\ f \in DOMAIN was => is[f] = was[f]
                 /\ \A f \in {"name", "position", "adp", "team"} : is[f] = was[f]
                 /\ is.my_guy = (key \in MY_GUYS)
                 /\ pc' = "add_player_rankings"
      ]_vars

\* C5 as claimed: without a key, get_sportsdataio_data changes neither the
\* mapping nor the number of network calls, whatever the snapshot file and
\* the clear flag are.
C5_NoKeyNoEffect ==
    [][ (pc = "get_sportsdataio_data" /\ args.sports_data_api_key = None)
          => (adp_data' = adp_data /\ net' = net)
      ]_vars

\* the depth fields of the record of a key, when an entry of the list has it
depth_of(entries, key) ==
    LET hits == {n \in DOMAIN entries : sdio_key(entries[n].Name) = key}
        last == CHOOSE n \in hits : \A m \in hits : m <= n
    IN  [depth_order |-> entries[last].DepthOrder,
         depth_display_order |-> entries[last].DepthDisplayOrder]

\* the mapping is data with the entries of the list merged into it
Merged(data, entries, result) ==
    /\ Len(result) = Len(data)
    /\ \A i \in DOMAIN data :
          /\ result[i].k = data[i].k
          /\ IF \E n \in DOMAIN entries : sdio_key(entries[n].Name) = data[i].k
             THEN LET d == depth_of(entries, data[i].k)
                  IN  result[i].v =
                         set_field(set_field(data[i].v, "depth_order", d.depth_order),
                                   "depth_display_order", d.depth_display_order)
             ELSE result[i].v = data[i].v

\* C5 amended: without a key no network call is made, the snapshot file is
\* not written and the run goes on; the mapping is unchanged unless the
\* snapshot file exists, is not empty and the clear flag is unset, and then
\* the entries of the snapshot are merged into it.
C5_NoKeyNoCall ==
    [][ (pc = "get_sportsdataio_data" /\ args.sports_data_api_key = None)
          => /\ net' = net
             /\ sd_file' = sd_file
             /\ pc' = "write"
             /\ IF sd_file # NoFile /\ ~args.clear_sd /\ Len(json_load(sd_file)) > 0
                THEN Merged(adp_data, json_load(sd_file), adp_data')
                ELSE adp_data' = adp_data
      ]_vars

\* without a key and without a network call a record has got its depth order
C5_Witness ==
    /\ pc = "write"
    /\ args.sports_data_api_key = None
    /\ net.sdio = 0
    /\ \E i \in DOMAIN adp_data : "depth_order" \in DOMAIN adp_data[i].v

\* C6: for a successful response the mapping has exactly one record for each
\* key of the response, the record of the last player of that key; one
\* duplicate is logged for each player after the first of its key, and the
\* run goes on.
C6_LastDuplicateWins ==
    [][ \A reply \in AdpReplies :
          ( /\ GetAdpData(reply)
            /\ reply.kind = "http" /\ reply.ok /\ reply.status = "Success" )
          => LET ps == reply.players
                 keyof(i) == adp_key(ps[i].name)
                 keys == {keyof(i) : i \in DOMAIN ps}
                 later == {i \in DOMAIN ps : \E j \in DOMAIN ps : j < i /\ keyof(j) = keyof(i)}
             IN  /\ pc' = "add_player_rankings"
                 /\ raised' = None
                 /\ dict_keys(adp_data') = keys
                 /\ Len(adp_data') = Cardinality(keys)
                 /\ \A i \in DOMAIN ps :
                       (\A j \in DOMAIN ps : j > i => keyof(j) # keyof(i))
                           => dict_get(adp_data', keyof(i)) = ps[i]
                 /\ Len(log') = Cardinality(later)
                 /\ \A n \in DOMAIN log' :
                       /\ log'[n].error = "has duplicate hits."
                       /\ \E i \in later : log'[n].about = ps[i].name
      ]_vars

\* two players of one key: one record, of the later one, and one report
C6_Witness ==
    /\ pc = "add_player_rankings"
    /\ rank_pos = [file |-> 1, rows |-> 0]
    /\ Len(adp_data) = 1
    /\ adp_data[1].k = <<"t","r","a","v","i","s","_","e","t","i","e","n","n","e">>
    /\ adp_data[1].v.name = <<"T","r","a","v","i","s"," ","E","t","i","e","n","n","e">>
    /\ Len(log) = 1
    /\ log[1].error = "has duplicate hits."

PrimaryFatal == {"requests.get", "Bad ADP API Call", "Bad ADP API Call Status"}
AllIngestors == <<"get_adp_data", "add_player_rankings", "get_sportsdataio_data">>

\* C7 as claimed: a run is aborted only inside the primary ingestor, by one
\* of its two fatal conditions.
C7_OnlyPrimaryAborts ==
    pc = "aborted" => (invoked = <<"get_adp_data">> /\ raised \in PrimaryFatal)

\* C7 amended: a run is aborted only by a fatal condition of the primary
\* ingestor or by a failed network call of the secondary ingestor; no step of
\* the ranking ingestor aborts, the secondary ingestor goes on to the write of
\* the snapshot whenever it makes no call or the call succeeds, and the write
\* goes on to the organizer.
C7_AbortsOnlyOnFailedCall ==
    [][ /\ pc' = "aborted" =>
              \/ (pc = "main" /\ raised' \in PrimaryFatal)
              \/ ( /\ pc = "get_sportsdataio_data"
                   /\ raised' \in {"requests.get", "Bad SportData.IO API Call"}
                   /\ net'.sdio = net.sdio + 1
                   /\ args.sports_data_api_key # None )
        /\ pc = "add_player_rankings" =>
              (pc' \in {"add_player_rankings", "get_sportsdataio_data"} /\ raised' = None)
        /\ \A reply \in SdioReplies :
              ( /\ GetSportsdataioData(reply)
                /\ (net' = net \/ (reply.kind = "http" /\ reply.ok)) )
              => (pc' = "write" /\ raised' = None)
        /\ pc = "write" =>
              (pc' = "organize_db_data" /\ export_file' = json_dumps(adp_data)
                 /\ "snapshot" \in done')
      ]_vars

\* a run that went past a row with a bad Rank and a missing key, and wrote
\* the snapshot
C7_Witness ==
    /\ pc = "organize_db_data"
    /\ invoked = AllIngestors
    /\ args.sports_data_api_key = None
    /\ "snapshot" \in done
    /\ \E i \in DOMAIN adp_data :
          /\ "my_guy" \in DOMAIN adp_data[i].v
          /\ "rank" \notin DOMAIN adp_data[i].v

IsPrefix(s, t) == Len(s) <= Len(t) /\ SubSeq(t, 1, Len(s)) = s

\* C8: a run that finds the snapshot with the clear-cache flag unset calls no
\* ingestor, makes no network call, does not write the snapshot and builds
\* the board from the snapshot; any other run calls the ingestors in the
\* order primary, ranking, secondary, and the snapshot is written only after
\* all three have returned, so an aborted run leaves it and writes nothing.
C8_SnapshotLifecycle ==
    [][ /\ (pc = "main" /\ export_file # NoFile /\ ~args.clear_cache)
              => /\ pc' = "organize_db_data"
                 /\ adp_data' = json_load(export_file)
                 /\ invoked' = <<>>
        /\ (pc = "main" /\ ~(export_file # NoFile /\ ~args.clear_cache))
              => invoked' = <<"get_adp_data">>
        /\ (pc # "main" /\ invoked = <<>>)
              => /\ invoked' = <<>>
                 /\ adp_data' = json_load(export_file)
                 /\ pc = "organize_db_data" =>
                       db_data' = organize_db_data(json_load(export_file)).board
        /\ invoked' = <<>> =>
              (net' = [adp |-> 0, sdio |-> 0] /\ export_file' = export_file
                 /\ "snapshot" \notin done')
        /\ IsPrefix(invoked', AllIngestors)
        /\ (export_file' # export_file \/ "snapshot" \in done' \ done)
              => (pc = "write" /\ invoked = AllIngestors /\ raised = None)
        /\ pc' = "aborted" => (export_file' = export_file /\ done' = {})
      ]_vars

\* a run served from the snapshot has written its board
C8_Witness ==
    /\ pc = "done"
    /\ invoked = <<>>
    /\ done = {"html", "pdf"}
    /\ adp_data # <<>>
    /\ db_data[<<"r","b">>] # <<>>

\* C10 as claimed: with a key, a snapshot file that exists with the clear flag
\* unset is loaded without a network call and left as it is, whatever it
\* holds; otherwise there is exactly one call, and the file is overwritten
\* with the response if and only if the call succeeds.
C10_SnapshotOrCall ==
    [][ \A reply \in SdioReplies :
          (GetSportsdataioData(reply) /\ args.sports_data_api_key # None)
          => IF sd_file # NoFile /\ ~args.clear_sd
             THEN net' = net /\ sd_file' = sd_file
             ELSE /\ net' = [net EXCEPT !.sdio = @ + 1]
                  /\ IF reply.kind = "http" /\ reply.ok
                     THEN sd_file' = json_dumps(reply.body)
                     ELSE sd_file' = sd_file
      ]_vars

\* C10 amended: the snapshot is used in place of the network only when it
\* also is not empty; an empty snapshot is treated as no snapshot.
C10_NonEmptySnapshotOrCall ==
    [][ \A reply \in SdioReplies :
          (GetSportsdataioData(reply) /\ args.sports_data_api_key # None)
          => IF sd_file # NoFile /\ ~args.clear_sd /\ Len(json_load(sd_file)) > 0
             THEN net' = net /\ sd_file' = sd_file
             ELSE /\ net' = [net EXCEPT !.sdio = @ + 1]
                  /\ IF reply.kind = "http" /\ reply.ok
                     THEN sd_file' = json_dumps(reply.body)
                     ELSE sd_file' = sd_file
      ]_vars

\* with a key and the clear flag unset a call was made and its response, which
\* is not empty, was saved
C10_Witness ==
    /\ pc = "write"
    /\ args.sports_data_api_key # None
    /\ ~args.clear_sd
    /\ net.sdio = 1
    /\ sd_file # NoFile
    /\ Len(json_load(sd_file)) > 0

====
